---- MODULE Spec2Model ----
(***************************************************************************)
(* Navigation-graph construction, exit location, A* path search and agent  *)
(* motion of src/src/services/pathfinding.ts.                              *)
(*                                                                         *)
(* Numbers.  Lengths and coordinates are integers in millimetres, times    *)
(* are integers in milliseconds and speeds are in millimetres per second.  *)
(* Addition, subtraction and multiplication are exact; a division and a    *)
(* square root are cut to a whole millimetre.  JavaScript's Infinity is    *)
(* the number Infinity below, larger than every length of the model.       *)
(*                                                                         *)
(* Arrays are sequences; an index of the program (0-based) i is the        *)
(* sequence position i + 1.  A Map is a function whose DOMAIN is the set   *)
(* of its keys.  An optional value that is absent is the empty sequence    *)
(* (positions, names) or a missing record field (fields of an Agent).      *)
(***************************************************************************)
EXTENDS Integers, Sequences, FiniteSets, TLC

VARIABLES
    building,   \* BuildingData: [buildingLevels |-> sequence of levels]
    graph,      \* NavGraph last built: [nodes, edges]
    built,      \* TRUE when the caller built graph with buildNavigationGraph
    pc,         \* calculatePath: "idle", "search", "returned", "threw"
    start,      \* calculatePath's argument start
    goal,       \* calculatePath's argument end
    viaExit,    \* TRUE when goal is what findNearestExit returned for start
    search,     \* aStar's locals: openSet, cameFrom, gScore, fScore, the two node indexes
    nodePath,   \* what aStar returned
    outcome,    \* which return of calculatePath ran: "none", "fallback", "route"
    result,     \* what calculatePath returned
    agent,      \* the Agent that moveAgent is applied to, as last returned
    agent0,     \* that Agent before the first call
    ticks,      \* calls of moveAgent so far
    elapsed,    \* the sum of their deltaTime
    covering,   \* how many of them had speed * deltaTime >= the whole length of agent0's path
    workspaceBuilding,  \* Workspace: buildingData, the last loaded building, <<>> for null
    sceneAreas,         \* Workspace: the floor-area boxes of sceneData.objects
    placementModeData,  \* Workspace: the boxes of the model being placed, <<>> for null
    agents,             \* Workspace: the agent set
    isSimulating,       \* Workspace: automatic stepping is on
    pending,            \* the callbacks waiting at `await import(...)`, oldest first
    clock,              \* Date.now(); it moves on when the building is cleared or replaced
    started,            \* calls of handleStartEvacuation so far
    fired,              \* firings of the animation loop's interval so far
    frozen              \* the page is in a loop that does not end

searchVars == <<building, graph, built, pc, start, goal, viaExit, search, nodePath, outcome, result>>
motionVars == <<agent, agent0, ticks, elapsed, covering>>
driverVars == <<workspaceBuilding, sceneAreas, placementModeData, agents, isSimulating,
                pending, clock, started, fired, frozen>>
vars == <<searchVars, motionVars, driverVars>>

-----------------------------------------------------------------------------
(* Bounds of the model *)

\* Areas per level in the building descriptions that are explored.
MaxAreas == 3
\* Waypoints of the paths moveAgent is started with.
MaxWaypoints == 2
\* Calls of moveAgent on one agent.
MaxTicks == 4
\* Agents in the driver's agent set.
MaxAgents == 1
\* Firings of the animation loop's interval.
MaxFired == 12
\* Calls of handleStartEvacuation.
MaxBatches == 2
\* Times the building is cleared or replaced.
MaxLoads == 2

-----------------------------------------------------------------------------
(* Program constants *)

\* JavaScript's Infinity (minDistance, minF, `|| Infinity`).
Infinity == 1000000000
\* The 0.5 m "waist height" added to a level's elevation.
HalfMetre == 500
\* Default width and length of an area: `area.width || 2`.
DefaultSize == 2000
\* Tolerance of calculatePath's level match, 1.5 m.
LevelTolerance == 1500
\* Segments of the straight-line fallback.
FallbackSteps == 10

-----------------------------------------------------------------------------
(* Arithmetic *)

Abs(n) == IF n < 0 THEN -n ELSE n

RECURSIVE SqrtBetween(_, _, _)
SqrtBetween(n, lo, hi) ==
    IF lo >= hi THEN lo
    ELSE LET mid == (lo + hi + 1) \div 2
         IN  IF mid * mid <= n THEN SqrtBetween(n, mid, hi)
                               ELSE SqrtBetween(n, lo, mid - 1)

\* Math.sqrt, cut to a whole number.
Sqrt(n) == SqrtBetween(n, 0, IF n < 46340 THEN n ELSE 46340)

distance3D(p1, p2) ==
    LET dx == p1[1] - p2[1]
        dy == p1[2] - p2[2]
        dz == p1[3] - p2[3]
    IN  Sqrt(dx * dx + dy * dy + dz * dz)

\* `x || Infinity` on a Map lookup: a missing key and the number 0 are both falsy.
OrInfinity(map, key) ==
    IF key \in DOMAIN map /\ map[key] # 0 THEN map[key] ELSE Infinity

\* Infinity + d is Infinity.
Plus(a, b) == IF a >= Infinity \/ b >= Infinity THEN Infinity ELSE a + b

\* Map.set
Put(map, key, value) ==
    [k \in DOMAIN map \cup {key} |-> IF k = key THEN value ELSE map[k]]

-----------------------------------------------------------------------------
(* Strings: a name is a sequence of characters *)

LowerOf ==
    [c \in {"S", "A", "L", "C", "O", "I", "N"} |->
        CASE c = "S" -> "s" [] c = "A" -> "a" [] c = "L" -> "l" [] c = "C" -> "c"
          [] c = "O" -> "o" [] c = "I" -> "i" [] c = "N" -> "n"]

toLowerCase(s) ==
    [i \in 1..Len(s) |-> IF s[i] \in DOMAIN LowerOf THEN LowerOf[s[i]] ELSE s[i]]

includes(s, sub) ==
    \E i \in 0..(Len(s) - Len(sub)) : SubSeq(s, i + 1, i + Len(sub)) = sub

-----------------------------------------------------------------------------
(* Building descriptions that are explored *)

SALA == <<"S", "A", "L", "A">>
COCINA == <<"C", "O", "C", "I", "N", "A">>
SalaDos == <<"S", "a", "l", "a", "2">>
AreaNames == <<SALA, COCINA, SalaDos>>

\* The area at sequence position i of a level is named and placed by its
\* position: SALA at [0, 0], COCINA at [3, 0], "Sala2" at [6, 0], ...
AreaNameAt(i) == AreaNames[((i - 1) % Len(AreaNames)) + 1]
AreaPositionAt(i) == <<3000 * (i - 1), 0>>

ExitDoor == [width |-> 1000, position |-> <<>>, connectsTo |-> <<>>, isExit |-> TRUE]
DoorTo(name) == [width |-> 1000, position |-> <<>>, connectsTo |-> name, isExit |-> FALSE]

\* What an area of a description is: placed or not, and its doors.
AreaKinds ==
    {[placed |-> TRUE, doors |-> d] :
        d \in {<<ExitDoor>>, <<DoorTo(SALA)>>, <<DoorTo(toLowerCase(COCINA))>>}}
    \cup {[placed |-> FALSE, doors |-> d] : d \in {<<>>, <<ExitDoor>>}}

AreaOf(i, kind) ==
    [name     |-> AreaNameAt(i),
     width    |-> 2000,
     length   |-> 2000,
     position |-> IF kind.placed THEN AreaPositionAt(i) ELSE <<>>,
     doors    |-> kind.doors]

LevelOf(kinds) ==
    [elevation |-> 0, areas |-> [i \in 1..Len(kinds) |-> AreaOf(i, kinds[i])]]

Buildings ==
    {[buildingLevels |-> <<LevelOf(kinds)>>] :
        kinds \in UNION {[1..n -> AreaKinds] : n \in 1..MaxAreas}}

\* SALA at [0,0] 2x2 with one exit door, COCINA at [3,0] 2x2 with one
\* non-exit door whose connectsTo is "SALA".
TwoAreaScenario ==
    [buildingLevels |->
        <<LevelOf(<<[placed |-> TRUE, doors |-> <<ExitDoor>>],
                    [placed |-> TRUE, doors |-> <<DoorTo(SALA)>>]>>)>>]

-----------------------------------------------------------------------------
(* buildNavigationGraph *)

EmptyGraph == [nodes |-> <<>>, edges |-> <<>>]

Elevation(level) == level.elevation

\* The first pass without line 97: an area without a position gets a node
\* too, at the origin.
AreaNodesUnplaced(level) ==
    [k \in 1..Len(level.areas) |->
        [areaIndex |-> k - 1,
         position  |-> IF level.areas[k].position = <<>>
                       THEN <<0, Elevation(level) + HalfMetre, 0>>
                       ELSE <<level.areas[k].position[1],
                              Elevation(level) + HalfMetre,
                              level.areas[k].position[2]>>,
         isDoor    |-> FALSE,
         isExit    |-> FALSE]]

\* First pass: one node per area that has a position, in level order.
AreaNodes(level) ==
    LET upTo[k \in 0..Len(level.areas)] ==
            IF k = 0 THEN <<>>
            ELSE IF level.areas[k].position = <<>> THEN upTo[k - 1]
            ELSE Append(upTo[k - 1],
                        [areaIndex |-> k - 1,
                         position  |-> <<level.areas[k].position[1],
                                         Elevation(level) + HalfMetre,
                                         level.areas[k].position[2]>>,
                         isDoor    |-> FALSE,
                         isExit    |-> FALSE])
    IN  upTo[Len(level.areas)]

\* Position of door number doorIndex (0-based) of an area.
DoorPosition(level, area, doorIndex) ==
    LET door == area.doors[doorIndex + 1]
        width == IF area.width = 0 THEN DefaultSize ELSE area.width
        length == IF area.length = 0 THEN DefaultSize ELSE area.length
        count == IF Len(area.doors) = 0 THEN 1 ELSE Len(area.doors)
    IN  IF door.position # <<>>
        THEN <<door.position[1], Elevation(level) + HalfMetre, door.position[2]>>
        \* edgeOffset = (doorIndex + 1) / (count + 1); x + (width / 2) * (edgeOffset * 2 - 1)
        ELSE <<area.position[1]
                 + ((width \div 2) * (2 * (doorIndex + 1) - (count + 1))) \div (count + 1),
               Elevation(level) + HalfMetre,
               area.position[2] + length \div 2>>

\* edges.get(key).push(value), after `if (!edges.has(key)) edges.set(key, [])`.
PushEdge(edges, key, value) ==
    IF key \in DOMAIN edges THEN [edges EXCEPT ![key] = Append(@, value)]
    ELSE Put(edges, key, <<value>>)

\* findIndex that finds no area: no door is joined to the area it connects to.
FindTargetAreaNone(level, connectsTo) == -1

\* level.areas.findIndex(a => a.name.toLowerCase().includes(connectsTo.toLowerCase()))
FindTargetArea(level, connectsTo) ==
    LET hits == {i \in 1..Len(level.areas) :
                    includes(toLowerCase(level.areas[i].name), toLowerCase(connectsTo))}
    IN  IF hits = {} THEN -1 ELSE (CHOOSE i \in hits : \A j \in hits : i <= j) - 1

\* DoorEdges without line 160, the edge back from the area a door connects to.
DoorEdgesOneWay(level, areaIndex, door, doorNodeIndex, edges) ==
    LET areaNodeIndex == areaIndex
        own == PushEdge(PushEdge(edges, areaNodeIndex, doorNodeIndex),
                        doorNodeIndex, areaNodeIndex)
        targetAreaIndex == FindTargetArea(level, door.connectsTo)
    IN  IF door.connectsTo # <<>> /\ ~door.isExit
           /\ targetAreaIndex # -1 /\ targetAreaIndex # areaIndex
        THEN PushEdge(own, doorNodeIndex, targetAreaIndex)
        ELSE own

\* The edges one door adds: to its own area's node, and to the area it connects to.
DoorEdges(level, areaIndex, door, doorNodeIndex, edges) ==
    LET areaNodeIndex == areaIndex
        own == PushEdge(PushEdge(edges, areaNodeIndex, doorNodeIndex),
                        doorNodeIndex, areaNodeIndex)
        targetAreaIndex == FindTargetArea(level, door.connectsTo)
    IN  IF door.connectsTo # <<>> /\ ~door.isExit
           /\ targetAreaIndex # -1 /\ targetAreaIndex # areaIndex
        THEN PushEdge(PushEdge(own, doorNodeIndex, targetAreaIndex),
                      targetAreaIndex, doorNodeIndex)
        ELSE own

\* The body of area.doors.forEach for one door.
AddDoor(level, areaIndex, doorIndex, g) ==
    LET area == level.areas[areaIndex + 1]
        door == area.doors[doorIndex + 1]
        doorNodeIndex == Len(g.nodes)
    IN  [nodes |-> Append(g.nodes,
                          [areaIndex |-> areaIndex,
                           position  |-> DoorPosition(level, area, doorIndex),
                           isDoor    |-> TRUE,
                           isExit    |-> door.isExit]),
         edges |-> DoorEdges(level, areaIndex, door, doorNodeIndex, g.edges)]

\* Second pass: the doors of every area that has a position, in order.
RECURSIVE DoorPass(_, _, _, _)
DoorPass(level, areaIndex, doorIndex, g) ==
    IF areaIndex >= Len(level.areas) THEN g
    ELSE IF level.areas[areaIndex + 1].position = <<>>
            \/ doorIndex >= Len(level.areas[areaIndex + 1].doors)
         THEN DoorPass(level, areaIndex + 1, 0, g)
         ELSE DoorPass(level, areaIndex, doorIndex + 1, AddDoor(level, areaIndex, doorIndex, g))

buildNavigationGraph(buildingData, levelIndex) ==
    IF levelIndex + 1 \notin DOMAIN buildingData.buildingLevels THEN EmptyGraph
    ELSE LET level == buildingData.buildingLevels[levelIndex + 1]
         IN  DoorPass(level, 0, 0, [nodes |-> AreaNodes(level), edges |-> <<>>])

-----------------------------------------------------------------------------
(* findNearestExit, findNearestNode, straightLinePath *)

\* The exit positions findNearestExit measures, in forEach order: one per
\* exit-flagged door of an area that has doors and a position.
ExitPositions(level) ==
    LET upTo[k \in 0..Len(level.areas)] ==
            IF k = 0 THEN <<>>
            ELSE LET area == level.areas[k]
                     exits == SelectSeq(area.doors, LAMBDA door : door.isExit)
                 IN  IF area.doors = <<>> \/ area.position = <<>> THEN upTo[k - 1]
                     ELSE upTo[k - 1] \o
                          [d \in 1..Len(exits) |->
                              <<area.position[1], Elevation(level) + HalfMetre, area.position[2]>>]
    IN  upTo[Len(level.areas)]

\* The comparison as `dist <= minDistance`: the last of the nearest candidates wins.
NearestStepLast(position, candidate, index, best) ==
    LET dist == distance3D(position, candidate)
    IN  IF dist <= best.minDistance
        THEN [minDistance |-> dist, nearest |-> candidate, index |-> index]
        ELSE best

\* `if (dist < minDistance) { minDistance = dist; nearest = candidate }` for one candidate.
NearestStep(position, candidate, index, best) ==
    LET dist == distance3D(position, candidate)
    IN  IF dist < best.minDistance
        THEN [minDistance |-> dist, nearest |-> candidate, index |-> index]
        ELSE best

\* The forEach over the candidates, in order.
RECURSIVE NearestFrom(_, _, _, _)
NearestFrom(position, candidates, k, best) ==
    IF k > Len(candidates) THEN best
    ELSE NearestFrom(position, candidates, k + 1,
                     NearestStep(position, candidates[k], k - 1, best))

\* The first candidate at the least distance, from minDistance = Infinity;
\* nearest is <<>> (null) and index 0 when there is no candidate.
Nearest(position, candidates) ==
    NearestFrom(position, candidates, 1,
                [minDistance |-> Infinity, nearest |-> <<>>, index |-> 0])

findNearestExit(agentPosition, agentLevelIndex, buildingData) ==
    IF agentLevelIndex + 1 \notin DOMAIN buildingData.buildingLevels THEN <<>>
    ELSE Nearest(agentPosition,
                 ExitPositions(buildingData.buildingLevels[agentLevelIndex + 1])).nearest

findNearestNode(position, nodes) ==
    Nearest(position, [i \in 1..Len(nodes) |-> nodes[i].position]).index

\* straightLinePath with `i < steps` for `i <= steps`: the last point is left out.
straightLinePathShort(from, to, steps) ==
    [k \in 1..steps |->
        <<from[1] + ((to[1] - from[1]) * (k - 1)) \div steps,
          from[2] + ((to[2] - from[2]) * (k - 1)) \div steps,
          from[3] + ((to[3] - from[3]) * (k - 1)) \div steps>>]

straightLinePath(from, to, steps) ==
    [k \in 1..(steps + 1) |->
        <<from[1] + ((to[1] - from[1]) * (k - 1)) \div steps,
          from[2] + ((to[2] - from[2]) * (k - 1)) \div steps,
          from[3] + ((to[3] - from[3]) * (k - 1)) \div steps>>]

-----------------------------------------------------------------------------
(* aStar *)

NoSearch ==
    [openSet |-> <<>>, cameFrom |-> <<>>, gScore |-> <<>>, fScore |-> <<>>,
     startNodeIndex |-> 0, goalNodeIndex |-> 0]

\* Lines 198-207: the locals before the loop.
AStarStart(startNodeIndex, goalNodeIndex, g) ==
    [openSet  |-> <<startNodeIndex>>,
     cameFrom |-> <<>>,
     gScore   |-> Put(<<>>, startNodeIndex, 0),
     fScore   |-> Put(<<>>, startNodeIndex,
                      distance3D(g.nodes[startNodeIndex + 1].position,
                                 g.nodes[goalNodeIndex + 1].position)),
     startNodeIndex |-> startNodeIndex,
     goalNodeIndex  |-> goalNodeIndex]

\* Lines 214-218 for one member of openSet.
PickStep(s, nodeIndex, best) ==
    LET f == OrInfinity(s.fScore, nodeIndex)
    IN  IF f < best.minF THEN [minF |-> f, current |-> nodeIndex] ELSE best

RECURSIVE PickFrom(_, _, _)
PickFrom(s, k, best) ==
    IF k > Len(s.openSet) THEN best
    ELSE PickFrom(s, k + 1, PickStep(s, s.openSet[k], best))

\* Lines 211-219: the member of openSet with the least fScore, in insertion
\* order, from current = -1 and minF = Infinity.
PickCurrent(s) == PickFrom(s, 1, [minF |-> Infinity, current |-> -1]).current

\* Lines 223-228: follow cameFrom back from the goal.
RECURSIVE ReconstructPath(_, _, _)
ReconstructPath(cameFrom, current, path) ==
    IF current \in DOMAIN cameFrom
    THEN ReconstructPath(cameFrom, cameFrom[current], <<cameFrom[current]>> \o path)
    ELSE path

\* Set.delete and Set.add on the insertion-ordered open set.
SetDelete(set, value) == SelectSeq(set, LAMBDA v : v # value)
SetAdd(set, value) ==
    IF \E i \in 1..Len(set) : set[i] = value THEN set ELSE Append(set, value)

\* Lines 236-237.
TentativeGScore(s, g, current, neighbor) ==
    Plus(OrInfinity(s.gScore, current),
         distance3D(g.nodes[current + 1].position, g.nodes[neighbor + 1].position))

\* Lines 236-248 for one neighbour whose node exists.
Relax(s, g, current, neighbor) ==
    LET tentativeGScore == TentativeGScore(s, g, current, neighbor)
    IN  IF tentativeGScore < OrInfinity(s.gScore, neighbor)
        THEN [s EXCEPT
                !.cameFrom = Put(@, neighbor, current),
                !.gScore   = Put(@, neighbor, tentativeGScore),
                !.fScore   = Put(@, neighbor,
                                 Plus(tentativeGScore,
                                      distance3D(g.nodes[neighbor + 1].position,
                                                 g.nodes[s.goalNodeIndex + 1].position))),
                !.openSet  = SetAdd(@, neighbor)]
        ELSE s

\* Lines 236-248 for one neighbour.  Reading .position of graph.nodes[neighbor]
\* when that index holds no node is a TypeError, which ends the call.
VisitNeighbor(acc, g, current, neighbor) ==
    IF acc.threw THEN acc
    ELSE IF neighbor + 1 \notin DOMAIN g.nodes \/ current + 1 \notin DOMAIN g.nodes
         THEN [threw |-> TRUE, s |-> acc.s]
         ELSE [threw |-> FALSE, s |-> Relax(acc.s, g, current, neighbor)]

RECURSIVE VisitFrom(_, _, _, _, _)
VisitFrom(acc, g, current, neighbors, k) ==
    IF k > Len(neighbors) THEN acc
    ELSE VisitFrom(VisitNeighbor(acc, g, current, neighbors[k]), g, current, neighbors, k + 1)

\* Lines 234-249: neighbors.forEach.
ExploreNeighbors(s, g, current) ==
    VisitFrom([threw |-> FALSE, s |-> s], g, current,
              IF current \in DOMAIN g.edges THEN g.edges[current] ELSE <<>>, 1)

\* One pass of `while (openSet.size > 0)`, lines 210-249.
AStarIteration(s, g) ==
    LET current == PickCurrent(s)
    IN  IF current = s.goalNodeIndex
        THEN [kind |-> "return", s |-> s,
              path |-> ReconstructPath(s.cameFrom, current, <<current>>)]
        ELSE LET explored ==
                     ExploreNeighbors([s EXCEPT !.openSet = SetDelete(@, current)], g, current)
             IN  [kind |-> IF explored.threw THEN "throw" ELSE "continue",
                  s |-> explored.s, path |-> <<>>]

-----------------------------------------------------------------------------
(* calculatePath *)

\* findIndex without its test of the height: the first level is taken.
FindLevelIndexAny(buildingData, from) == 0

\* buildingLevels.findIndex(level => Math.abs(start[1] - elevation - 0.5) < 1.5)
FindLevelIndex(buildingData, from) ==
    LET hits == {i \in 1..Len(buildingData.buildingLevels) :
                    Abs(from[2] - Elevation(buildingData.buildingLevels[i]) - HalfMetre)
                        < LevelTolerance}
    IN  IF hits = {} THEN -1 ELSE (CHOOSE i \in hits : \A j \in hits : i <= j) - 1

\* Lines 294-303: [start, the nodes' positions, end].
RouteWaypoints(from, to, path, g) ==
    <<from>> \o [k \in 1..Len(path) |-> g.nodes[path[k] + 1].position] \o <<to>>

\* Lines 265-288, up to aStar's loop: either a return of the fallback, or the
\* search's locals on entry to the loop.
CalculatePathEntry(from, to, buildingData, navGraph, given) ==
    LET levelIndex == FindLevelIndex(buildingData, from)
        g == IF given THEN navGraph ELSE buildNavigationGraph(buildingData, levelIndex)
    IN  IF levelIndex = -1
        THEN [kind |-> "fallback", graph |-> navGraph, s |-> NoSearch]
        ELSE IF Len(g.nodes) = 0
        THEN [kind |-> "fallback", graph |-> g, s |-> NoSearch]
        ELSE [kind |-> "search", graph |-> g,
              s |-> AStarStart(findNearestNode(from, g.nodes), findNearestNode(to, g.nodes), g)]

-----------------------------------------------------------------------------
(* moveAgent *)

\* DEFAULT_AGENT_PROFILES: id and speed (1.4, 0.8, 1.0, 0.5 and 2.0 m/s).
DEFAULT_AGENT_PROFILES ==
    <<[id |-> "adult-normal", speed |-> 1400],
      [id |-> "elderly",      speed |-> 800],
      [id |-> "child",        speed |-> 1000],
      [id |-> "disabled",     speed |-> 500],
      [id |-> "athletic",     speed |-> 2000]>>

\* profiles.find(p => p.id === profileId) that takes the first profile when none matches.
FindProfileOrFirst(profiles, profileId) ==
    LET hits == {i \in 1..Len(profiles) : profiles[i].id = profileId}
    IN  IF hits = {} THEN <<profiles[1]>>
        ELSE <<profiles[CHOOSE i \in hits : \A j \in hits : i <= j]>>

\* profiles.find(p => p.id === profileId): <<the profile>>, or <<>> (undefined).
FindProfile(profiles, profileId) ==
    LET hits == {i \in 1..Len(profiles) : profiles[i].id = profileId}
    IN  IF hits = {} THEN <<>>
        ELSE <<profiles[CHOOSE i \in hits : \A j \in hits : i <= j]>>

\* { ...record, [field]: value }
With(record, field, value) ==
    [k \in DOMAIN record \cup {field} |-> IF k = field THEN value ELSE record[k]]

\* { ...record, [field]: undefined }
Without(record, field) == [k \in DOMAIN record \ {field} |-> record[k]]

\* delta * num / den, cut to a whole millimetre.
Scaled(delta, num, den) ==
    IF delta >= 0 THEN (delta * num) \div den ELSE -(((-delta) * num) \div den)

\* Lines 375-391 without line 380: the waypoint reached is not added to the history.
ArriveUnrecorded(a, target) ==
    LET newPath == Tail(a.path)
        evacuated == Len(newPath) = 0
        moved == [a EXCEPT !.position = target,
                           !.path = newPath,
                           !.evacuated = evacuated]
    IN  IF evacuated
        THEN With(moved, "evacuationTime",
                  IF "evacuationTime" \in DOMAIN a THEN a.evacuationTime ELSE 0)
        ELSE Without(moved, "evacuationTime")

\* Lines 375-391 with `newPath.length === 1` for `newPath.length === 0`.
ArriveEarly(a, target) ==
    LET newPath == Tail(a.path)
        evacuated == Len(newPath) = 1
        moved == [a EXCEPT !.position = target,
                           !.path = newPath,
                           !.pathHistory = Append(@, target),
                           !.evacuated = evacuated]
    IN  IF evacuated
        THEN With(moved, "evacuationTime",
                  IF "evacuationTime" \in DOMAIN a THEN a.evacuationTime ELSE 0)
        ELSE Without(moved, "evacuationTime")

\* Lines 375-391: the waypoint is reached.
Arrive(a, target) ==
    LET newPath == Tail(a.path)
        evacuated == Len(newPath) = 0
        moved == [a EXCEPT !.position = target,
                           !.path = newPath,
                           !.pathHistory = Append(@, target),
                           !.evacuated = evacuated]
    IN  IF evacuated
        THEN With(moved, "evacuationTime",
                  IF "evacuationTime" \in DOMAIN a THEN a.evacuationTime ELSE 0)
        ELSE Without(moved, "evacuationTime")

\* Lines 394-402 with ratio = 1: the agent is put on the waypoint.
ApproachWhole(a, target, distanceToMove, currentDist) ==
    [a EXCEPT !.position = target]

\* Lines 394-402: a step of distanceToMove towards the waypoint.
Approach(a, target, distanceToMove, currentDist) ==
    [a EXCEPT !.position =
        <<a.position[1] + Scaled(target[1] - a.position[1], distanceToMove, currentDist),
          a.position[2] + Scaled(target[2] - a.position[2], distanceToMove, currentDist),
          a.position[3] + Scaled(target[3] - a.position[3], distanceToMove, currentDist)>>]

\* A profile speed that counts for nothing: no distance is covered in a call.
DistanceToMoveNone(speed, deltaTime) == 0

\* speed (mm/s) * deltaTime (ms), in millimetres.
DistanceToMove(speed, deltaTime) == (speed * deltaTime) \div 1000

moveAgent(a, deltaTime, profiles) ==
    IF "path" \notin DOMAIN a \/ Len(a.path) = 0 \/ a.evacuated THEN a
    ELSE LET profile == FindProfile(profiles, a.profileId)
         IN  IF profile = <<>> THEN a
             ELSE LET distanceToMove == DistanceToMove(profile[1].speed, deltaTime)
                      target == a.path[1]
                      currentDist == distance3D(a.position, target)
                  IN  IF currentDist <= distanceToMove
                      THEN Arrive(a, target)
                      ELSE Approach(a, target, distanceToMove, currentDist)

-----------------------------------------------------------------------------
(* The operations of the path search *)

TheLevel == building.buildingLevels[1]
AreaCenter(i) == <<3000 * (i - 1), HalfMetre, 0>>
DoorSide(i) == <<3000 * (i - 1), HalfMetre, 1000>>
\* A position whose height matches no level.
Upstairs == <<0, 3500, 0>>

StartPositions ==
    {AreaCenter(i) : i \in 1..Len(TheLevel.areas)}
    \cup {DoorSide(i) : i \in 1..Len(TheLevel.areas)}
    \cup {Upstairs}
GoalPositions == {AreaCenter(i) : i \in 1..Len(TheLevel.areas)}

\* The Workspace's state when it is mounted (the useState initial values).
WorkspaceMounted ==
    /\ workspaceBuilding = <<>>
    /\ sceneAreas = {}
    /\ placementModeData = <<>>
    /\ agents = <<>>
    /\ isSimulating = FALSE
    /\ pending = <<>>
    /\ clock = 0
    /\ started = 0
    /\ fired = 0
    /\ frozen = FALSE

\* An agent as handleAddAgent makes it, at the door side of the first area.
NoAgent ==
    [id |-> "agent-1", profileId |-> "adult-normal", position |-> DoorSide(1),
     pathHistory |-> <<DoorSide(1)>>, levelIndex |-> 0,
     isEvacuating |-> FALSE, evacuated |-> FALSE]

Init ==
    /\ building \in Buildings
    /\ graph = EmptyGraph
    /\ built = FALSE
    /\ pc = "idle"
    /\ start = <<>>
    /\ goal = <<>>
    /\ viaExit = FALSE
    /\ search = NoSearch
    /\ nodePath = <<>>
    /\ outcome = "none"
    /\ result = <<>>
    /\ agent = NoAgent
    /\ agent0 = NoAgent
    /\ ticks = 0
    /\ elapsed = 0
    /\ covering = 0
    /\ WorkspaceMounted

\* The caller builds the level's graph once, before any path is asked for.
BuildGraph(levelIndex) ==
    /\ pc = "idle"
    /\ ~built
    /\ graph' = buildNavigationGraph(building, levelIndex)
    /\ built' = TRUE
    /\ UNCHANGED <<building, pc, start, goal, viaExit, search, nodePath, outcome, result>>
    /\ UNCHANGED <<motionVars, driverVars>>

\* calculatePath(from, to, buildingData, navGraph?) up to the search loop.
Call(from, to) ==
    LET entry == CalculatePathEntry(from, to, building, graph, built)
    IN  /\ start' = from
        /\ goal' = to
        /\ graph' = entry.graph
        /\ search' = entry.s
        /\ nodePath' = <<>>
        /\ IF entry.kind = "fallback"
           THEN /\ pc' = "returned"
                /\ outcome' = "fallback"
                /\ result' = straightLinePath(from, to, FallbackSteps)
           ELSE /\ pc' = "search"
                /\ outcome' = "none"
                /\ result' = <<>>
        /\ UNCHANGED <<building, built>>

\* calculatePath without a navGraph: it builds the graph of the level it finds.
CalculatePath(from, to) ==
    /\ pc = "idle"
    /\ start = <<>>
    /\ ~built
    /\ viaExit' = FALSE
    /\ Call(from, to)
    /\ UNCHANGED <<motionVars, driverVars>>

\* findNearestExit for an agent at `from`, then calculatePath to the exit found
\* with the graph built before; no path is asked for when there is no exit.
FindExitThenPath(from) ==
    LET exit == findNearestExit(from, 0, building)
    IN  /\ pc = "idle"
        /\ start = <<>>
        /\ built
        /\ viaExit' = TRUE
        /\ IF exit = <<>>
           THEN /\ start' = from
                /\ goal' = <<>>
                /\ pc' = "idle"
                /\ outcome' = "none"
                /\ result' = <<>>
                /\ search' = NoSearch
                /\ nodePath' = <<>>
                /\ UNCHANGED <<building, graph, built>>
           ELSE Call(from, exit)
        /\ UNCHANGED <<motionVars, driverVars>>

\* One pass of aStar's loop, and what calculatePath does when aStar returns in it.
AStarStep ==
    /\ pc = "search"
    /\ Len(search.openSet) > 0
    /\ LET step == AStarIteration(search, graph)
       IN  /\ search' = step.s
           /\ CASE step.kind = "return" ->
                     /\ nodePath' = step.path
                     /\ pc' = "returned"
                     /\ IF Len(step.path) = 0
                        THEN /\ outcome' = "fallback"
                             /\ result' = straightLinePath(start, goal, FallbackSteps)
                        ELSE /\ outcome' = "route"
                             /\ result' = RouteWaypoints(start, goal, step.path, graph)
                [] step.kind = "throw" ->
                     /\ pc' = "threw"
                     /\ UNCHANGED <<nodePath, outcome, result>>
                [] OTHER ->
                     UNCHANGED <<pc, nodePath, outcome, result>>
    /\ UNCHANGED <<building, graph, built, start, goal, viaExit>>
    /\ UNCHANGED <<motionVars, driverVars>>

\* The open set is empty: aStar returns [] and calculatePath the fallback.
AStarExhausted ==
    /\ pc = "search"
    /\ Len(search.openSet) = 0
    /\ nodePath' = <<>>
    /\ pc' = "returned"
    /\ outcome' = "fallback"
    /\ result' = straightLinePath(start, goal, FallbackSteps)
    /\ UNCHANGED <<building, graph, built, start, goal, viaExit, search>>
    /\ UNCHANGED <<motionVars, driverVars>>

Next ==
    \/ \E levelIndex \in 0..(Len(building.buildingLevels) - 1) : BuildGraph(levelIndex)
    \/ \E from \in StartPositions, to \in GoalPositions : CalculatePath(from, to)
    \/ \E from \in StartPositions : FindExitThenPath(from)
    \/ AStarStep
    \/ AStarExhausted

Spec == Init /\ [][Next]_vars

-----------------------------------------------------------------------------
(* The operations of the motion *)

\* Where the agents stand and the waypoints their paths are made of.
AgentPositions == {AreaCenter(1), DoorSide(1)}
Waypoints == {AreaCenter(1), AreaCenter(2), DoorSide(2)}

\* The paths of up to MaxWaypoints waypoints.
Paths == UNION {[1..n -> Waypoints] : n \in 0..MaxWaypoints}

ProfileIds == {"adult-normal", "child", "unknown"}

\* The deltaTime of a call, in milliseconds; 50 is the animation loop's.
TickTimes == {0, 50, 1000, 10000}

\* An agent as handleAddAgent makes it.
NewAgent(position, profileId) ==
    [id |-> "agent-1", profileId |-> profileId, position |-> position,
     pathHistory |-> <<position>>, levelIndex |-> 0,
     isEvacuating |-> FALSE, evacuated |-> FALSE]

\* The agent once handleStartEvacuation gave it a path.
Evacuating(a, path) ==
    With(With([a EXCEPT !.isEvacuating = TRUE], "path", path),
         "targetPosition", IF Len(path) = 0 THEN a.position ELSE path[Len(path)])

\* The agent once it reached the end of the path it was given.
Evacuated(a) ==
    With(With(With([a EXCEPT !.isEvacuating = TRUE, !.evacuated = TRUE], "path", <<>>),
              "targetPosition", a.position),
         "evacuationTime", 0)

Agents ==
    UNION {{NewAgent(position, profileId), Evacuated(NewAgent(position, profileId))}
           \cup {Evacuating(NewAgent(position, profileId), path) : path \in Paths}
             : position \in AgentPositions, profileId \in ProfileIds}

\* The length of the way from `from` along the waypoints of `path`.
RECURSIVE PathLength(_, _)
PathLength(from, path) ==
    IF Len(path) = 0 THEN 0
    ELSE distance3D(from, path[1]) + PathLength(path[1], Tail(path))

\* The speed of the agent's profile; 0 when the profile is not found.
SpeedOf(a) ==
    LET profile == FindProfile(DEFAULT_AGENT_PROFILES, a.profileId)
    IN  IF profile = <<>> THEN 0 ELSE profile[1].speed

MoveInit ==
    /\ building = TwoAreaScenario
    /\ graph = EmptyGraph
    /\ built = FALSE
    /\ pc = "idle"
    /\ start = <<>>
    /\ goal = <<>>
    /\ viaExit = FALSE
    /\ search = NoSearch
    /\ nodePath = <<>>
    /\ outcome = "none"
    /\ result = <<>>
    /\ agent \in Agents
    /\ agent0 = agent
    /\ ticks = 0
    /\ elapsed = 0
    /\ covering = 0
    /\ WorkspaceMounted

\* agent = moveAgent(agent, deltaTime, DEFAULT_AGENT_PROFILES)
Advance(deltaTime) ==
    /\ ticks < MaxTicks
    /\ agent' = moveAgent(agent, deltaTime, DEFAULT_AGENT_PROFILES)
    /\ ticks' = ticks + 1
    /\ elapsed' = elapsed + deltaTime
    /\ covering' = IF "path" \in DOMAIN agent0
                         /\ DistanceToMove(SpeedOf(agent0), deltaTime)
                               >= PathLength(agent0.position, agent0.path)
                   THEN covering + 1
                   ELSE covering
    /\ UNCHANGED agent0
    /\ UNCHANGED <<searchVars, driverVars>>

MoveNext == \E deltaTime \in TickTimes : Advance(deltaTime)

MoveSpec == MoveInit /\ [][MoveNext]_vars

-----------------------------------------------------------------------------
(* buildingConverter: the floor-area boxes of the scene *)

\* AREA_HEIGHT (0.05 m)
AreaHeight == 50

\* estimateAreaDimensions without a surface: 2 x 2.
Dimensions(area) ==
    IF area.width # 0 /\ area.length # 0
    THEN [width |-> area.width, length |-> area.length]
    ELSE [width |-> DefaultSize, length |-> DefaultSize]

\* currentX before area number i of the compact layout.
RECURSIVE WidthBefore(_, _)
WidthBefore(areas, i) ==
    IF i <= 1 THEN 0 ELSE WidthBefore(areas, i - 1) + Dimensions(areas[i - 1]).width

\* generateAreaPositions: the positions given, [0, 0] for an area without one;
\* when no area has a position, the areas side by side.
generateAreaPositions(areas) ==
    IF \E i \in 1..Len(areas) : areas[i].position # <<>>
    THEN [i \in 1..Len(areas) |->
            IF areas[i].position # <<>> THEN areas[i].position ELSE <<0, 0>>]
    ELSE [i \in 1..Len(areas) |->
            <<WidthBefore(areas, i) + Dimensions(areas[i]).width \div 2, 0>>]

\* convertLevel: the box of every area (id `level-<levelIndex>-area-...`).
convertLevel(level, levelIndex) ==
    LET positions == generateAreaPositions(level.areas)
    IN  {[levelIndex |-> levelIndex,
          areaIndex  |-> i - 1,
          position   |-> <<positions[i][1],
                           Elevation(level) + AreaHeight \div 2,
                           positions[i][2]>>,
          size       |-> <<Dimensions(level.areas[i]).width, AreaHeight,
                           Dimensions(level.areas[i]).length>>]
         : i \in 1..Len(level.areas)}

\* convertBuildingToScene, the floor-area boxes of its objects.
convertBuildingToScene(data) ==
    UNION {convertLevel(data.buildingLevels[i], i - 1) : i \in 1..Len(data.buildingLevels)}

-----------------------------------------------------------------------------
(* calculatePath as one call *)

\* aStar's loop from the locals s: its return value, a TypeError ("throw"),
\* or "loop" when a pass leaves the locals as they were and so repeats for ever.
RECURSIVE RunAStar(_, _)
RunAStar(s, g) ==
    IF Len(s.openSet) = 0 THEN [kind |-> "return", path |-> <<>>]
    ELSE LET step == AStarIteration(s, g)
         IN  IF step.kind = "continue"
             THEN IF step.s = s THEN [kind |-> "loop", path |-> <<>>]
                  ELSE RunAStar(step.s, g)
             ELSE [kind |-> step.kind, path |-> step.path]

\* Lines 288-303: what calculatePath does with what aStar did.
PathOfRun(from, to, g, run) ==
    IF run.kind # "return" THEN [kind |-> run.kind, waypoints |-> <<>>]
    ELSE IF Len(run.path) = 0
    THEN [kind |-> "return", waypoints |-> straightLinePath(from, to, FallbackSteps)]
    ELSE [kind |-> "return", waypoints |-> RouteWaypoints(from, to, run.path, g)]

\* Lines 271-303, from the level and the graph settled at entry.
PathOfEntry(from, to, entry) ==
    IF entry.kind = "fallback"
    THEN [kind |-> "return", waypoints |-> straightLinePath(from, to, FallbackSteps)]
    ELSE PathOfRun(from, to, entry.graph, RunAStar(entry.s, entry.graph))

\* calculatePath(from, to, data, navGraph): its waypoints when it returns,
\* or how it fails to.
calculatePath(from, to, data, navGraph) ==
    PathOfEntry(from, to, CalculatePathEntry(from, to, data, navGraph, TRUE))

-----------------------------------------------------------------------------
(* Workspace: the simulation driver *)

\* handleAddAgent's margin (0.5 m).
SpawnMargin == 500
\* The deltaTime of the animation loop (0.05 s).
TickTime == 50

\* One room with a door that leads nowhere and no exit.
OneRoomNoExit ==
    [buildingLevels |-> <<LevelOf(<<[placed |-> TRUE, doors |-> <<DoorTo(SALA)>>]>>)>>]

\* The buildings that are loaded.
DriverBuildings == {TwoAreaScenario, OneRoomNoExit}

\* (Math.random() - 0.5) * (size - margin) along x and z, for handleAddAgent.
SpawnOffsets == {<<0, 0>>, <<0, 740>>}

\* The profiles chosen in the selector.
SelectedProfiles == {"athletic"}

\* Lines 214-222: the agent handleAddAgent adds; its id is `agent-${Date.now()}`.
AddedAgent(box, offset, profileId, now) ==
    LET agentPosition == <<box.position[1] + offset[1], box.position[2],
                           box.position[3] + offset[2]>>
    IN  [id |-> now, profileId |-> profileId, position |-> agentPosition,
         pathHistory |-> <<agentPosition>>, levelIndex |-> box.levelIndex,
         isEvacuating |-> FALSE, evacuated |-> FALSE]

\* Lines 239-243: one graph per level.
NavGraphs(data) ==
    [levelIndex \in 0..(Len(data.buildingLevels) - 1) |->
        buildNavigationGraph(data, levelIndex)]

\* A variant of lines 263-269 that stores the path and the target but leaves
\* isEvacuating as it was.
AgentWithPathIdle(a, exit, call) ==
    IF call.kind # "return" THEN [kind |-> call.kind, agent |-> a]
    ELSE [kind |-> "return",
          agent |-> With(With(a, "targetPosition", exit), "path", call.waypoints)]

\* Lines 263-269: the agent with the path calculatePath returned.
AgentWithPath(a, exit, call) ==
    IF call.kind # "return" THEN [kind |-> call.kind, agent |-> a]
    ELSE [kind |-> "return",
          agent |-> With(With([a EXCEPT !.isEvacuating = TRUE], "targetPosition", exit),
                         "path", call.waypoints)]

\* Lines 250-269: the agent, from the exit findNearestExit returned.
AgentTowardsExit(a, exit, data, navGraphs) ==
    IF exit = <<>> THEN [kind |-> "return", agent |-> a]
    ELSE IF a.levelIndex \notin DOMAIN navGraphs THEN [kind |-> "return", agent |-> a]
    ELSE AgentWithPath(a, exit,
                       calculatePath(a.position, exit, data, navGraphs[a.levelIndex]))

\* Lines 247-269: the body of agents.map for one agent.
EvacuateAgent(a, data, navGraphs) ==
    IF a.evacuated THEN [kind |-> "return", agent |-> a]
    ELSE AgentTowardsExit(a, findNearestExit(a.position, a.levelIndex, data), data, navGraphs)

\* agents.map: the updated agents, or the first call that does not return.
RECURSIVE EvacuateFrom(_, _, _, _, _)
RECURSIVE EvacuateRest(_, _, _, _, _, _)
EvacuateFrom(snapshot, data, navGraphs, k, done) ==
    IF k > Len(snapshot) THEN [kind |-> "return", agents |-> done]
    ELSE EvacuateRest(snapshot, data, navGraphs, k, done,
                      EvacuateAgent(snapshot[k], data, navGraphs))

\* agents.map once the callback ran for agent k.
EvacuateRest(snapshot, data, navGraphs, k, done, one) ==
    IF one.kind # "return" THEN [kind |-> one.kind, agents |-> done]
    ELSE EvacuateFrom(snapshot, data, navGraphs, k + 1, Append(done, one.agent))

\* Lines 239-270 of handleStartEvacuation, on the agents and the building of
\* the render in which it was called.
UpdatedAgents(snapshot, data) == EvacuateFrom(snapshot, data, NavGraphs(data), 1, <<>>)

\* prevAgents.every(a => a.evacuated)
AllEvacuated(set) == \A i \in 1..Len(set) : set[i].evacuated

\* The state updater of one tick, lines 288-298: the agents it returns.
TickedAgents(prevAgents) ==
    IF AllEvacuated(prevAgents) THEN prevAgents
    ELSE [i \in 1..Len(prevAgents) |->
            moveAgent(prevAgents[i], TickTime, DEFAULT_AGENT_PROFILES)]

\* Line 291 left out: the updater never calls setIsSimulating(false).
SimulatingAfterTickKept(prevAgents, simulating) == simulating

\* A variant of lines 289-292 that also stops when the agents left are the
\* ones that cannot move (no path).
SimulatingAfterTickIdle(prevAgents, simulating) ==
    IF \A i \in 1..Len(prevAgents) :
          prevAgents[i].evacuated \/ "path" \notin DOMAIN prevAgents[i]
    THEN FALSE ELSE simulating

\* isSimulating once the updater ran, lines 289-292.
SimulatingAfterTick(prevAgents, simulating) ==
    IF AllEvacuated(prevAgents) THEN FALSE ELSE simulating

\* The search and the single agent of the other specifications, at rest.
SearchAndMotionAtRest ==
    /\ building = TwoAreaScenario
    /\ graph = EmptyGraph
    /\ built = FALSE
    /\ pc = "idle"
    /\ start = <<>>
    /\ goal = <<>>
    /\ viaExit = FALSE
    /\ search = NoSearch
    /\ nodePath = <<>>
    /\ outcome = "none"
    /\ result = <<>>
    /\ agent = NoAgent
    /\ agent0 = NoAgent
    /\ ticks = 0
    /\ elapsed = 0
    /\ covering = 0

\* The Workspace as it is mounted.
WorkspaceInit == SearchAndMotionAtRest /\ WorkspaceMounted

\* The Workspace once a building was loaded into it (LoadBuilding from
\* WorkspaceInit), before any agent is added.
DriverInit ==
    /\ SearchAndMotionAtRest
    /\ workspaceBuilding \in DriverBuildings
    /\ sceneAreas = convertBuildingToScene(workspaceBuilding)
    /\ placementModeData = <<>>
    /\ agents = <<>>
    /\ isSimulating = FALSE
    /\ pending = <<>>
    /\ clock = 1
    /\ started = 0
    /\ fired = 0
    /\ frozen = FALSE

\* Lines 246-272 seen from the Workspace: setAgents(updatedAgents) when the
\* map returned, no write when calculatePath threw, and a page that answers
\* no more when aStar never returns.
BatchWrite(updated, current) ==
    [agents |-> IF updated.kind = "return" THEN updated.agents ELSE current,
     frozen |-> updated.kind = "loop"]

\* handleJsonUpload, handleFileUpload, handleTestWithSample: clearScene(),
\* then addModelToScene(data).
LoadBuilding(data) ==
    /\ ~frozen
    /\ clock < MaxLoads
    /\ clock' = clock + 1
    /\ sceneAreas' = convertBuildingToScene(data)
    /\ workspaceBuilding' = data
    /\ UNCHANGED <<placementModeData, agents, isSimulating, pending, started, fired, frozen>>
    /\ UNCHANGED <<searchVars, motionVars>>

\* handleGoToUploadStep: clearScene().
GoToUploadStep ==
    /\ ~frozen
    /\ clock < MaxLoads
    /\ clock' = clock + 1
    /\ sceneAreas' = {}
    /\ workspaceBuilding' = <<>>
    /\ UNCHANGED <<placementModeData, agents, isSimulating, pending, started, fired, frozen>>
    /\ UNCHANGED <<searchVars, motionVars>>

\* handleLoadFromFirebase: the saved building is the current one and its
\* scene waits to be placed.
LoadFromFirebase(data) ==
    /\ ~frozen
    /\ clock < MaxLoads
    /\ clock' = clock + 1
    /\ placementModeData' = <<convertBuildingToScene(data)>>
    /\ workspaceBuilding' = data
    /\ UNCHANGED <<sceneAreas, agents, isSimulating, pending, started, fired, frozen>>
    /\ UNCHANGED <<searchVars, motionVars>>

\* handlePlaceModel, with the pointer at the origin.
PlaceModel ==
    /\ ~frozen
    /\ placementModeData # <<>>
    /\ sceneAreas' = sceneAreas \cup placementModeData[1]
    /\ placementModeData' = <<>>
    /\ UNCHANGED <<workspaceBuilding, agents, isSimulating, pending, clock, started, fired, frozen>>
    /\ UNCHANGED <<searchVars, motionVars>>

\* handleAddAgent, behind its button (disabled without a building).
AddAgent(box, offset, profileId) ==
    /\ ~frozen
    /\ workspaceBuilding # <<>>
    /\ box \in sceneAreas
    /\ -(box.size[1] - SpawnMargin) <= 2 * offset[1]
    /\ 2 * offset[1] < box.size[1] - SpawnMargin
    /\ -(box.size[3] - SpawnMargin) <= 2 * offset[2]
    /\ 2 * offset[2] < box.size[3] - SpawnMargin
    /\ Len(agents) < MaxAgents
    /\ agents' = Append(agents, AddedAgent(box, offset, profileId, clock))
    /\ UNCHANGED <<workspaceBuilding, sceneAreas, placementModeData, isSimulating,
                   pending, clock, started, fired, frozen>>
    /\ UNCHANGED <<searchVars, motionVars>>

\* handleStartEvacuation up to its `await import(...)`, behind its button
\* (disabled without agents, without a building and while simulating).
StartEvacuation ==
    /\ ~frozen
    /\ Len(agents) > 0
    /\ ~isSimulating
    /\ workspaceBuilding # <<>>
    /\ started < MaxBatches
    /\ started' = started + 1
    /\ isSimulating' = TRUE
    /\ pending' = Append(pending, [kind |-> "evacuation", agents |-> agents,
                                   buildingData |-> workspaceBuilding, missed |-> FALSE])
    /\ UNCHANGED <<workspaceBuilding, sceneAreas, placementModeData, agents, clock, fired,
                   frozen>>
    /\ UNCHANGED <<searchVars, motionVars>>

\* The interval of the animation loop fires: its callback waits at `await import(...)`.
TickFire ==
    /\ ~frozen
    /\ isSimulating
    /\ fired < MaxFired
    /\ fired' = fired + 1
    /\ pending' = Append(pending, [kind |-> "tick"])
    /\ UNCHANGED <<workspaceBuilding, sceneAreas, placementModeData, agents, isSimulating,
                   clock, started, frozen>>
    /\ UNCHANGED <<searchVars, motionVars>>

\* The oldest waiting callback is handleStartEvacuation: lines 239-273.
EvacuationBatch ==
    /\ ~frozen
    /\ Len(pending) > 0
    /\ pending[1].kind = "evacuation"
    /\ pending' = Tail(pending)
    /\ LET written == BatchWrite(UpdatedAgents(pending[1].agents, pending[1].buildingData),
                                 agents)
       IN  /\ agents' = written.agents
           /\ frozen' = written.frozen
    /\ UNCHANGED <<workspaceBuilding, sceneAreas, placementModeData, isSimulating, clock,
                   started, fired>>
    /\ UNCHANGED <<searchVars, motionVars>>

\* The oldest waiting callback is a tick: setAgents(prevAgents => ...), lines 288-298.
\* A waiting handleStartEvacuation whose agents are older than the ones this
\* tick changed has missed the change.
TickApply ==
    /\ ~frozen
    /\ Len(pending) > 0
    /\ pending[1].kind = "tick"
    /\ agents' = TickedAgents(agents)
    /\ isSimulating' = SimulatingAfterTick(agents, isSimulating)
    /\ pending' = [i \in 1..(Len(pending) - 1) |->
                     IF pending[i + 1].kind = "evacuation" /\ agents' # agents
                     THEN [pending[i + 1] EXCEPT !.missed = TRUE]
                     ELSE pending[i + 1]]
    /\ UNCHANGED <<workspaceBuilding, sceneAreas, placementModeData, clock, started, fired,
                   frozen>>
    /\ UNCHANGED <<searchVars, motionVars>>

\* The pause button: setIsSimulating(false).
Pause ==
    /\ ~frozen
    /\ isSimulating
    /\ isSimulating' = FALSE
    /\ UNCHANGED <<workspaceBuilding, sceneAreas, placementModeData, agents, pending,
                   clock, started, fired, frozen>>
    /\ UNCHANGED <<searchVars, motionVars>>

\* handleClearAgents, behind its buttons (disabled without agents).
ClearAgents ==
    /\ ~frozen
    /\ Len(agents) > 0
    /\ agents' = <<>>
    /\ isSimulating' = FALSE
    /\ UNCHANGED <<workspaceBuilding, sceneAreas, placementModeData, pending, clock,
                   started, fired, frozen>>
    /\ UNCHANGED <<searchVars, motionVars>>

\* Adding agents, evacuating and stepping in the building that is loaded.
DriverNext ==
    \/ \E box \in sceneAreas, offset \in SpawnOffsets, profileId \in SelectedProfiles :
          AddAgent(box, offset, profileId)
    \/ StartEvacuation
    \/ TickFire
    \/ EvacuationBatch
    \/ TickApply
    \/ Pause
    \/ ClearAgents

DriverSpec == DriverInit /\ [][DriverNext]_vars

\* The Workspace from its mounting, buildings loaded and replaced, as far as
\* the first firing of the animation loop's interval.
WorkspaceNext ==
    \/ \E data \in DriverBuildings : LoadBuilding(data)
    \/ GoToUploadStep
    \/ \E data \in DriverBuildings : LoadFromFirebase(data)
    \/ PlaceModel
    \/ \E box \in sceneAreas, offset \in SpawnOffsets, profileId \in SelectedProfiles :
          AddAgent(box, offset, profileId)
    \/ StartEvacuation
    \/ (fired = 0 /\ TickFire)
    \/ EvacuationBatch
    \/ TickApply
    \/ Pause
    \/ ClearAgents

WorkspaceSpec == WorkspaceInit /\ [][WorkspaceNext]_vars

-----------------------------------------------------------------------------
(* The animation loop on its own: tick after tick on one agent *)

\* One tick of the animation loop on an agent set that holds the agent:
\* setAgents(prevAgents => ...), lines 288-298.
Tick ==
    /\ agent' = TickedAgents(<<agent>>)[1]
    /\ UNCHANGED <<agent0, ticks, elapsed, covering>>
    /\ UNCHANGED <<searchVars, driverVars>>

\* Where the agents that are stepped stand, and the waypoints of their paths:
\* a few ticks apart, as the points of a straight-line path are.
\* The agents that are stepped: new, evacuating along a path, or evacuated.
SteppedAgents ==
    UNION {{NewAgent(position, profileId), Evacuated(NewAgent(position, profileId))}
           \cup {Evacuating(NewAgent(position, profileId), path) :
                    path \in UNION {[1..n -> {<<0, HalfMetre, 0>>, <<130, HalfMetre, 90>>,
                                               <<240, HalfMetre, 0>>}]
                                     : n \in 1..MaxWaypoints}}
             : position \in {<<0, HalfMetre, 0>>, <<40, HalfMetre, 0>>},
               profileId \in ProfileIds}

TickingInit ==
    /\ building = TwoAreaScenario
    /\ graph = EmptyGraph
    /\ built = FALSE
    /\ pc = "idle"
    /\ start = <<>>
    /\ goal = <<>>
    /\ viaExit = FALSE
    /\ search = NoSearch
    /\ nodePath = <<>>
    /\ outcome = "none"
    /\ result = <<>>
    /\ agent \in SteppedAgents
    /\ agent0 = agent
    /\ ticks = 0
    /\ elapsed = 0
    /\ covering = 0
    /\ WorkspaceMounted

\* The interval fires every 50 ms for as long as stepping is on: a tick that
\* can change the agent is not put off for ever.
TickingSpec == TickingInit /\ [][Tick]_vars /\ WF_vars(Tick)

-----------------------------------------------------------------------------
(* What the claims speak of *)

\* aStar ran in the call that returned.
Searched == search # NoSearch

HasNode(g, index) == index + 1 \in DOMAIN g.nodes

Neighbors(g, u) ==
    IF u \in DOMAIN g.edges
    THEN {g.edges[u][k] : k \in 1..Len(g.edges[u])}
    ELSE {}

\* The nodes an edge-connected route from the nodes of `seen` leads to.
RECURSIVE ReachableFrom(_, _)
ReachableFrom(g, seen) ==
    LET more == {v \in UNION {Neighbors(g, u) : u \in seen} : HasNode(g, v)} \ seen
    IN  IF more = {} THEN seen ELSE ReachableFrom(g, seen \cup more)

Reachable(g, u, v) == v \in ReachableFrom(g, {u})

\* Every edge joins two nodes that exist and has a length above 0.
PositiveEdges(g) ==
    \A u \in DOMAIN g.edges : \A v \in Neighbors(g, u) :
        /\ HasNode(g, u)
        /\ HasNode(g, v)
        /\ distance3D(g.nodes[u + 1].position, g.nodes[v + 1].position) > 0

\* The routes without a repeated node from the end of `path` to `to` (brute force).
RECURSIVE RoutesFrom(_, _, _)
RoutesFrom(g, path, to) ==
    LET u == path[Len(path)]
        used == {path[k] : k \in 1..Len(path)}
    IN  IF u = to THEN {path}
        ELSE UNION {RoutesFrom(g, Append(path, v), to) :
                        v \in {w \in Neighbors(g, u) : HasNode(g, w)} \ used}

RECURSIVE RouteLength(_, _)
RouteLength(g, path) ==
    IF Len(path) < 2 THEN 0
    ELSE distance3D(g.nodes[path[1] + 1].position, g.nodes[path[2] + 1].position)
         + RouteLength(g, Tail(path))

\* `path` goes from node u to node v along edges of g.
IsRoute(g, path, u, v) ==
    /\ Len(path) >= 1
    /\ path[1] = u
    /\ path[Len(path)] = v
    /\ \A k \in 1..Len(path) : HasNode(g, path[k])
    /\ \A k \in 1..(Len(path) - 1) : path[k + 1] \in Neighbors(g, path[k])

\* Position i of `sequence` holds `value`.
Holds(sequence, i, value) == i \in DOMAIN sequence /\ sequence[i] = value

-----------------------------------------------------------------------------
(* Claims *)

\* C1: in the two-area scenario, the agent at COCINA's center that is given
\* findNearestExit and then calculatePath receives waypoints that hold the
\* position of the COCINA->SALA door node, and hold it before the position
\* of the exit-door node.
C1_ScenarioRouteThroughDoors ==
    (building = TwoAreaScenario /\ built /\ viaExit /\ start = AreaCenter(2) /\ pc = "returned")
    => \E d, e \in 1..Len(graph.nodes) :
          /\ graph.nodes[d].isDoor /\ ~graph.nodes[d].isExit
          /\ graph.nodes[e].isDoor /\ graph.nodes[e].isExit
          /\ \E i, j \in 1..Len(result) :
                /\ i < j
                /\ result[i] = graph.nodes[d].position
                /\ result[j] = graph.nodes[e].position

\* C2: on a graph whose edges all have a length above 0, the node route
\* calculatePath returns between the nearest-start node and the nearest-goal
\* node is at most as long as every other route between the two nodes.
C2_RouteIsShortest ==
    (pc = "returned" /\ Searched /\ PositiveEdges(graph)
       /\ Reachable(graph, search.startNodeIndex, search.goalNodeIndex))
    => /\ outcome = "route"
       /\ IsRoute(graph, nodePath, search.startNodeIndex, search.goalNodeIndex)
       /\ \A other \in RoutesFrom(graph, <<search.startNodeIndex>>, search.goalNodeIndex) :
             RouteLength(graph, nodePath) <= RouteLength(graph, other)

\* C3: on a non-empty graph calculatePath returns the straight-line fallback
\* only when the nearest-goal node cannot be reached from the nearest-start
\* node; when it can, the result is [start, the positions of an
\* edge-connected node route between the two nodes, goal].
C3_FallbackOnlyWhenUnreachable ==
    (pc = "returned" /\ Searched)
    => IF Reachable(graph, search.startNodeIndex, search.goalNodeIndex)
       THEN /\ outcome = "route"
            /\ IsRoute(graph, nodePath, search.startNodeIndex, search.goalNodeIndex)
            /\ result = RouteWaypoints(start, goal, nodePath, graph)
       ELSE outcome = "fallback"

\* C4: calculatePath ends for every start, goal and graph: every pass of the
\* open-set loop either ends the call or changes the search (a pass that
\* leaves the open set, the scores and cameFrom as they were repeats for ever,
\* the loop having no other state).
C4_SearchLoopEnds ==
    (pc = "search" /\ Len(search.openSet) > 0)
    => LET step == AStarIteration(search, graph)
       IN  step.kind # "continue" \/ step.s # search

\* C5: calculatePath never raises an error, whatever the building
\* description and the graph built from it.
C5_NeverRaises == pc # "threw"

C7_NodeIndexAlignment ==
    built
    => \A i \in 1..Len(TheLevel.areas) :
          TheLevel.areas[i].position # <<>>
          => /\ HasNode(graph, i - 1)
             /\ ~graph.nodes[i].isDoor
             /\ graph.nodes[i].areaIndex = i - 1

\* C8: in every graph that is built, each v in edges[u] has u in edges[v].
C8_EdgesSymmetric ==
    \A u \in DOMAIN graph.edges : \A v \in Neighbors(graph, u) : u \in Neighbors(graph, v)

\* C8 witness: a built graph in which a door is joined to its own area and to
\* the area it connects to.
C8_Witness ==
    /\ built
    /\ \E d \in 1..Len(graph.nodes) :
          /\ graph.nodes[d].isDoor
          /\ Cardinality(Neighbors(graph, d - 1)) = 2

\* The agent was given a path of two or more waypoints and its profile is in
\* the catalog.
MultiWaypointCase ==
    /\ "path" \in DOMAIN agent0
    /\ Len(agent0.path) >= 2
    /\ ~agent0.evacuated
    /\ SpeedOf(agent0) > 0

\* No leg of the agent's way has length 0.
ProperLegs(a) ==
    /\ a.position # a.path[1]
    /\ \A k \in 1..(Len(a.path) - 1) : a.path[k] # a.path[k + 1]

\* C9 as stated (on paths without a leg of length 0): once the deltaTime of the calls sum to the time the whole
\* path takes at the profile's speed or to more (a single call with one large
\* deltaTime included), the agent is evacuated and stands on the last
\* waypoint of the path.
C9_ArrivalConservation ==
    (MultiWaypointCase
       /\ ProperLegs(agent0)
       /\ ticks >= 1
       /\ SpeedOf(agent0) * elapsed >= 1000 * PathLength(agent0.position, agent0.path))
    => /\ agent.evacuated
       /\ agent.position = agent0.path[Len(agent0.path)]

\* C9 amended: a call reaches one waypoint at most.  After as many calls
\* whose deltaTime covers the whole path as the path has waypoints, the agent
\* is evacuated and stands on the last waypoint; after fewer calls than the
\* path has waypoints it is not evacuated, and a single covering call leaves
\* it on the first waypoint.
C9_ArrivalOneWaypointPerCall ==
    MultiWaypointCase
    => /\ covering >= Len(agent0.path)
          => /\ agent.evacuated
             /\ agent.position = agent0.path[Len(agent0.path)]
             /\ agent.path = <<>>
       /\ ticks < Len(agent0.path) => ~agent.evacuated
       /\ (ticks = 1 /\ covering = 1)
          => /\ agent.position = agent0.path[1]
             /\ agent.path = Tail(agent0.path)

\* C9 witness: a path of two waypoints or more, at different places, walked
\* to its end by covering calls.
C9_Witness ==
    /\ MultiWaypointCase
    /\ agent0.path[1] # agent0.path[Len(agent0.path)]
    /\ covering >= Len(agent0.path)
    /\ agent.evacuated
    /\ agent.position = agent0.path[Len(agent0.path)]

\* moveAgent's no-op cases: evacuated, no path or an empty one, or a
\* profileId that is not in the catalog.
NoOpCase(a) ==
    \/ a.evacuated
    \/ "path" \notin DOMAIN a
    \/ Len(a.path) = 0
    \/ \A i \in 1..Len(DEFAULT_AGENT_PROFILES) : DEFAULT_AGENT_PROFILES[i].id # a.profileId

\* C10: an agent that is evacuated, has no path or an empty one, or whose
\* profileId is not in the catalog is returned by moveAgent with every field
\* as it was, evacuationTime included, for every deltaTime and however many
\* times moveAgent is applied.
C10_NoOpWhenNothingToDo == NoOpCase(agent0) => agent = agent0

\* C10 witness: moveAgent was applied more than once, the last time with a
\* deltaTime above 0, to an agent that has a path to walk but a profileId the
\* catalog does not have.
C10_Witness ==
    /\ ticks >= 2
    /\ elapsed >= 1000
    /\ "path" \in DOMAIN agent0
    /\ Len(agent0.path) >= 1
    /\ agent0.position # agent0.path[1]
    /\ agent0.profileId = "unknown"
    /\ agent = agent0

\* The step is a tick of the animation loop: the state updater of the oldest
\* waiting tick is applied.
TickRuns ==
    /\ ~frozen
    /\ Len(pending) > 0
    /\ pending[1].kind = "tick"
    /\ Len(pending') = Len(pending) - 1

\* C11: when every agent of the agent set has evacuated = true and stepping
\* is on, the next tick turns stepping off (isSimulating = false) and leaves
\* the agent set as it is.
C11_HaltsOnceAllEvacuated ==
    [][(TickRuns /\ isSimulating /\ \A i \in 1..Len(agents) : agents[i].evacuated)
        => (~isSimulating' /\ agents' = agents)]_vars

\* C11 witness: an agent walked its whole path, every tick that fired has
\* run, the last of them after the agent was evacuated, and stepping is off.
C11_Witness ==
    /\ Len(agents) > 0
    /\ \A i \in 1..Len(agents) : agents[i].evacuated /\ Len(agents[i].pathHistory) > FallbackSteps
    /\ fired > FallbackSteps + 1
    /\ pending = <<>>
    /\ started = 1
    /\ ~isSimulating

\* The step is the resumed part of handleStartEvacuation: the oldest waiting
\* callback is an evacuation and it is taken from the queue.
BatchRuns ==
    /\ ~frozen
    /\ Len(pending) > 0
    /\ pending[1].kind = "evacuation"
    /\ Len(pending') = Len(pending) - 1

\* C12: the batch is atomic relative to ticking: no tick changes the agents
\* between the moment handleStartEvacuation turns stepping on and the moment
\* it writes the agents with their paths, so the write of a batch never
\* replaces agents that a tick changed after the batch took its agents.
C12_BatchAtomicToTicks ==
    [][(BatchRuns /\ agents' # agents) => ~pending[1].missed]_vars

\* The step is not handleClearAgents emptying the agent set.
KeepsAgents == ~(Len(agents) > 0 /\ agents' = <<>>)

\* C13: terminal states never revert: in every step of the driver other than
\* clearing the agent set, an agent with evacuated = true keeps it and an
\* agent with isEvacuating = true keeps it.
C13_TerminalStatesNeverRevert ==
    [][KeepsAgents =>
        \A i \in 1..Len(agents) :
            /\ i \in 1..Len(agents')
            /\ agents[i].evacuated => agents'[i].evacuated
            /\ agents[i].isEvacuating => agents'[i].isEvacuating]_vars

\* The bidirectional edges of g: the pairs of nodes each of which is in the
\* other's adjacency list.
BidirectionalEdges(g) ==
    {pair \in {{u, v} : u \in DOMAIN g.edges, v \in DOMAIN g.edges} :
        \E u \in pair, v \in pair :
            /\ pair = {u, v}
            /\ v \in Neighbors(g, u)
            /\ u \in Neighbors(g, v)}

\* The nodes of g that are door nodes, and those that are area centers.
DoorNodes(g) == {i \in 1..Len(g.nodes) : g.nodes[i].isDoor}
CenterNodes(g) == {i \in 1..Len(g.nodes) : ~g.nodes[i].isDoor}

\* The graph in hand was built for the two-area scenario.
ScenarioGraphBuilt == built /\ building = TwoAreaScenario

\* C14 as stated: the graph of the two-area scenario has exactly 4 nodes
\* (2 area centers, 2 door nodes) and exactly 4 bidirectional edges.
C14_ScenarioFourNodesFourEdges ==
    ScenarioGraphBuilt
    => /\ Len(graph.nodes) = 4
       /\ Cardinality(CenterNodes(graph)) = 2
       /\ Cardinality(DoorNodes(graph)) = 2
       /\ Cardinality(BidirectionalEdges(graph)) = 4

\* C14: the graph of the two-area scenario has exactly 4 nodes (2 area
\* centers, 2 door nodes) and exactly 3 bidirectional edges: SALA's center
\* with its exit door, COCINA's center with its door, and COCINA's door with
\* SALA's center.
C14_ScenarioFourNodesThreeEdges ==
    ScenarioGraphBuilt
    => /\ Len(graph.nodes) = 4
       /\ Cardinality(CenterNodes(graph)) = 2
       /\ Cardinality(DoorNodes(graph)) = 2
       /\ BidirectionalEdges(graph) = {{0, 2}, {1, 3}, {3, 0}}

\* C14 witness: the graph of the two-area scenario is built and a door node
\* is joined to two area centers.
C14_Witness ==
    /\ ScenarioGraphBuilt
    /\ Len(graph.nodes) = 4
    /\ \E d \in DoorNodes(graph) : Neighbors(graph, d - 1) = {0, 1}

\* No area of the level has a position.
NoAreaPlaced(level) == \A i \in 1..Len(level.areas) : level.areas[i].position = <<>>

\* `path` is steps + 1 points from `from` to `to`, point k being k - 1 tenths
\* of the way (to the millimetre).
EvenlySpaced(path, from, to) ==
    /\ Len(path) = FallbackSteps + 1
    /\ path[1] = from
    /\ path[FallbackSteps + 1] = to
    /\ \A k \in 1..(FallbackSteps + 1) : \A c \in 1..3 :
          LET off == FallbackSteps * (path[k][c] - from[c]) - (to[c] - from[c]) * (k - 1)
          IN  -FallbackSteps < off /\ off < FallbackSteps

\* C15: for a level in which no area has a position, buildNavigationGraph
\* returns a graph without nodes and without edges, and every calculatePath
\* call against that graph (given to it, or built by it) returns the
\* straight-line fallback: 11 evenly spaced points from the start to the end
\* it was asked for.
C15_UnplacedLevelFallsBack ==
    NoAreaPlaced(TheLevel)
    => /\ buildNavigationGraph(building, 0) = EmptyGraph
       /\ built => graph = EmptyGraph
       /\ pc \in {"idle", "returned"}
       /\ pc = "returned"
          => /\ outcome = "fallback"
             /\ ~Searched
             /\ EvenlySpaced(result, start, goal)
       /\ \A from \in StartPositions, to \in GoalPositions :
             LET call == calculatePath(from, to, building, EmptyGraph)
             IN  call.kind = "return" /\ EvenlySpaced(call.waypoints, from, to)

\* C15 witness: calculatePath returned for a level without a placed area,
\* the level being the one the start is on, and the start and the end differ.
C15_Witness ==
    /\ NoAreaPlaced(TheLevel)
    /\ pc = "returned"
    /\ start \notin {goal, Upstairs}
    /\ graph = EmptyGraph
    /\ Len(result) = FallbackSteps + 1

\* The areas of the level (by number) that have an exit-flagged door, and
\* those of them that have a position.
ExitAreas(level) ==
    {i \in 1..Len(level.areas) :
        \E d \in 1..Len(level.areas[i].doors) : level.areas[i].doors[d].isExit}
PlacedExitAreas(level) == {i \in ExitAreas(level) : level.areas[i].position # <<>>}

\* [area.x, elevation + 0.5, area.z] of area number i.
ExitPositionOf(level, i) ==
    <<level.areas[i].position[1], level.elevation + HalfMetre, level.areas[i].position[2]>>

\* `found` is the position of the area of `among` nearest to `from`, the
\* first of them in level order when several are as near.
IsNearestOf(found, from, level, among) ==
    \E i \in among :
        /\ found = ExitPositionOf(level, i)
        /\ \A j \in among :
              LET di == distance3D(from, ExitPositionOf(level, i))
                  dj == distance3D(from, ExitPositionOf(level, j))
              IN  di <= dj /\ (di = dj => i <= j)

\* findNearestExit was called for an agent at `start` and returned `goal`.
ExitAsked == viaExit /\ start # <<>>

\* C16 as stated: findNearestExit returns the position of the nearest area
\* that owns an exit-flagged door (the first in level order on a tie), none
\* when the level has no exit-flagged door, and a position whenever the
\* level has at least one.
C16_NearestExitOrNone ==
    ExitAsked
    => /\ (goal = <<>>) <=> (ExitAreas(TheLevel) = {})
       /\ goal # <<>> => IsNearestOf(goal, start, TheLevel, PlacedExitAreas(TheLevel))

\* C16: findNearestExit returns the position of the nearest area that has a
\* position and owns an exit-flagged door (the first in level order on a
\* tie), and none exactly when no area with a position owns an exit-flagged
\* door.
C16_NearestPlacedExitOrNone ==
    ExitAsked
    => /\ (goal = <<>>) <=> (PlacedExitAreas(TheLevel) = {})
       /\ goal # <<>> => IsNearestOf(goal, start, TheLevel, PlacedExitAreas(TheLevel))

\* C16 witness: an exit was found for an agent as near to two areas with an
\* exit door, and the first of them was returned.
C16_Witness ==
    /\ ExitAsked
    /\ \E i \in PlacedExitAreas(TheLevel), j \in PlacedExitAreas(TheLevel) :
          /\ i < j
          /\ distance3D(start, ExitPositionOf(TheLevel, i))
               = distance3D(start, ExitPositionOf(TheLevel, j))
          /\ goal = ExitPositionOf(TheLevel, i)

\* The agent after n ticks of the animation loop that step it.
RECURSIVE AfterTicks(_, _)
AfterTicks(a, n) ==
    IF n = 0 THEN a
    ELSE AfterTicks(moveAgent(a, TickTime, DEFAULT_AGENT_PROFILES), n - 1)

\* findNearestExit returns none for the agent in the building of the batch.
NoExitFor(a, data) == findNearestExit(a.position, a.levelIndex, data) = <<>>

\* C17: an agent for which findNearestExit returns none in
\* handleStartEvacuation is left exactly as it was by the batch, and the
\* ticks that follow never change its position.
C17_NoExitAgentStaysPut ==
    [][BatchRuns
        => \A i \in 1..Len(pending[1].agents) :
              NoExitFor(pending[1].agents[i], pending[1].buildingData)
              => /\ i \in 1..Len(agents')
                 /\ agents'[i] = pending[1].agents[i]
                 /\ \A n \in 1..MaxTicks :
                       AfterTicks(agents'[i], n).position = agents'[i].position]_vars

\* C18: no agent outlives the building it was created in: every agent of the
\* agent set was created (its id is the time of its creation) since the
\* building description was last cleared or replaced.
C18_AgentsOfCurrentBuilding ==
    \A i \in 1..Len(agents) : agents[i].id = clock

\* The step is one call of moveAgent on the agent.
MoveAgentRuns == ticks' = ticks + 1

\* moveAgent goes past its two early returns for agent a: a is not
\* evacuated, has a path that is not empty and a profile of the catalog.
Moves(a) ==
    /\ "path" \in DOMAIN a
    /\ Len(a.path) > 0
    /\ ~a.evacuated
    /\ FindProfile(DEFAULT_AGENT_PROFILES, a.profileId) # <<>>

\* C19: the arrival step: when the agent is not evacuated, has a profile of
\* the catalog and a path that is not empty, and the distance from its
\* position to path[0] is at most speed * deltaTime, the call returns it on
\* path[0], with the path less its first waypoint, the history with that
\* waypoint appended, and evacuated = true exactly when the new path is
\* empty; one waypoint is consumed, however large deltaTime is.
C19_ArrivalStep ==
    [][(MoveAgentRuns
          /\ Moves(agent)
          /\ distance3D(agent.position, agent.path[1])
               <= DistanceToMove(SpeedOf(agent), elapsed' - elapsed))
        => /\ agent'.position = agent.path[1]
           /\ agent'.path = Tail(agent.path)
           /\ Len(agent'.path) = Len(agent.path) - 1
           /\ agent'.pathHistory = Append(agent.pathHistory, agent.path[1])
           /\ agent'.evacuated <=> (Len(agent'.path) = 0)]_vars

\* C19 witness: one call whose deltaTime covers the whole of a path of two
\* waypoints or more left the agent on the first waypoint, not evacuated.
C19_Witness ==
    /\ MultiWaypointCase
    /\ ProperLegs(agent0)
    /\ ticks = 1
    /\ covering = 1
    /\ agent.position = agent0.path[1]
    /\ agent.path = Tail(agent0.path)
    /\ agent.pathHistory = <<agent0.position, agent0.path[1]>>
    /\ ~agent.evacuated

\* C20: the partial-move step: when the distance from the agent's position
\* to path[0] is more than speed * deltaTime, the call changes the position
\* and no other field, and the new position is between the old one and
\* path[0], speed * deltaTime away from the old one and as much nearer to
\* path[0] (to the millimetres that the whole-millimetre coordinates allow).
C20_PartialMoveStep ==
    [][(MoveAgentRuns
          /\ Moves(agent)
          /\ distance3D(agent.position, agent.path[1])
               > DistanceToMove(SpeedOf(agent), elapsed' - elapsed))
        => LET target == agent.path[1]
               distanceToMove == DistanceToMove(SpeedOf(agent), elapsed' - elapsed)
           IN  /\ agent' = [agent EXCEPT !.position = agent'.position]
               /\ \A c \in 1..3 :
                     \/ agent.position[c] <= agent'.position[c]
                          /\ agent'.position[c] <= target[c]
                     \/ target[c] <= agent'.position[c]
                          /\ agent'.position[c] <= agent.position[c]
               /\ Abs(distance3D(agent.position, agent'.position) - distanceToMove) <= 2
               /\ Abs(distance3D(agent'.position, target)
                        - (distance3D(agent.position, target) - distanceToMove)) <= 2]_vars

\* C20 witness: one call of the animation loop's deltaTime moved the agent
\* part of the way to a waypoint that lies off the axes from it.
C20_Witness ==
    /\ ticks = 1
    /\ elapsed = TickTime
    /\ Moves(agent)
    /\ agent = [agent0 EXCEPT !.position = agent.position]
    /\ agent.position[1] \notin {agent0.position[1], agent0.path[1][1]}
    /\ agent.position[3] \notin {agent0.position[3], agent0.path[1][3]}

\* The doors the second pass of buildNavigationGraph makes nodes for, in the
\* order it makes them: the doors of the areas that have a position.
DoorList(level) ==
    LET upTo[k \in 0..Len(level.areas)] ==
            IF k = 0 THEN <<>>
            ELSE IF level.areas[k].position = <<>> THEN upTo[k - 1]
            ELSE upTo[k - 1] \o [d \in 1..Len(level.areas[k].doors) |->
                                    [areaIndex |-> k - 1, door |-> level.areas[k].doors[d]]]
    IN  upTo[Len(level.areas)]

\* The areas of the level that have a position (by number).
PlacedAreas(level) == {i \in 1..Len(level.areas) : level.areas[i].position # <<>>}

\* The index of the node made for door number k of DoorList.
DoorNodeOf(level, k) == Cardinality(PlacedAreas(level)) + k - 1

\* The indices of the center nodes of g made for the area of index areaIndex.
CenterNodesOf(g, areaIndex) ==
    {n \in 0..(Len(g.nodes) - 1) :
        ~g.nodes[n + 1].isDoor /\ g.nodes[n + 1].areaIndex = areaIndex}

\* The areas (by number) whose name holds `name`, letter case apart.
MatchingAreas(level, name) ==
    {i \in 1..Len(level.areas) :
        includes(toLowerCase(level.areas[i].name), toLowerCase(name))}

\* Nodes u and v of g are each in the other's adjacency list.
Joined(g, u, v) == v \in Neighbors(g, u) /\ u \in Neighbors(g, v)

\* Door number k of DoorList is not an exit and names an area it connects to.
Connecting(level, k) ==
    /\ ~DoorList(level)[k].door.isExit
    /\ DoorList(level)[k].door.connectsTo # <<>>

\* C21: in the graph built for a level, the node of every non-exit door with
\* a connectsTo name is joined in both directions to the center node of the
\* first area, in level order, whose name holds that name (letter case
\* apart); when no area's name does, the door node has its own-area edge and
\* no other.
C21_ConnectsToFirstMatch ==
    built
    => \A k \in 1..Len(DoorList(TheLevel)) :
          Connecting(TheLevel, k)
          => LET matches == MatchingAreas(TheLevel, DoorList(TheLevel)[k].door.connectsTo)
                 d == DoorNodeOf(TheLevel, k)
             IN  IF matches # {}
                 THEN \E c \in CenterNodesOf(graph,
                                             (CHOOSE i \in matches : \A j \in matches : i <= j) - 1) :
                         Joined(graph, d, c)
                 ELSE d \in DOMAIN graph.edges /\ Len(graph.edges[d]) = 1

\* C22: in the graph built for a level, the node of every exit-flagged door
\* is a dead end: its neighbours are one node, the center node of the area
\* that owns the door, and no edge of another door's connectsTo leads to it.
C22_ExitDoorsAreDeadEnds ==
    built
    => \A k \in 1..Len(DoorList(TheLevel)) :
          DoorList(TheLevel)[k].door.isExit
          => /\ Cardinality(Neighbors(graph, DoorNodeOf(TheLevel, k))) = 1
             /\ Neighbors(graph, DoorNodeOf(TheLevel, k))
                  = CenterNodesOf(graph, DoorList(TheLevel)[k].areaIndex)
             /\ \A u \in DOMAIN graph.edges :
                   DoorNodeOf(TheLevel, k) \in Neighbors(graph, u)
                   => u \in CenterNodesOf(graph, DoorList(TheLevel)[k].areaIndex)

\* C23: in the graph built for a level, every door node is joined in both
\* directions to the center node of the area that owns the door (the node
\* that is not a door and has the door's areaIndex), whatever areas without
\* a position come before that area in the level.
C23_DoorJoinedToOwnCenter ==
    built
    => \A k \in 1..Len(DoorList(TheLevel)) :
          \E c \in CenterNodesOf(graph, DoorList(TheLevel)[k].areaIndex) :
              /\ graph.nodes[DoorNodeOf(TheLevel, k) + 1].isDoor
              /\ graph.nodes[DoorNodeOf(TheLevel, k) + 1].areaIndex
                   = DoorList(TheLevel)[k].areaIndex
              /\ Joined(graph, DoorNodeOf(TheLevel, k), c)

\* The height y is within the tolerance of elevation + 0.5 for no level.
OnNoLevel(data, y) ==
    \A i \in 1..Len(data.buildingLevels) :
        Abs(y - data.buildingLevels[i].elevation - HalfMetre) >= LevelTolerance

\* calculatePath was called with a start that is on no level.
CalledOffLevel == start # <<>> /\ goal # <<>> /\ OnNoLevel(building, start[2])

\* C24: when the start's height is within the tolerance of elevation + 0.5
\* for no level, calculatePath returns at once the straight-line fallback
\* (11 points from the start to the goal) and the search is not run, also
\* when it was given a graph that has nodes.
C24_OffLevelFallsBack ==
    CalledOffLevel
    => /\ pc = "returned"
       /\ outcome = "fallback"
       /\ ~Searched
       /\ EvenlySpaced(result, start, goal)

\* C24 witness: calculatePath was given a graph with nodes and a start on no
\* level, and returned 11 points.
C24_Witness ==
    /\ CalledOffLevel
    /\ built
    /\ Len(graph.nodes) > 0
    /\ start # goal
    /\ Len(result) = FallbackSteps + 1

\* The path of agent a, <<>> when it has none.
PathOf(a) == IF "path" \in DOMAIN a THEN a.path ELSE <<>>

\* C25: once stepping is paused or has halted (isSimulating = false), no
\* tick changes the position, the path or the pathHistory of an agent: a
\* tick whose callback was still waiting for its import when stepping was
\* turned off applies no movement step afterwards.
C25_NoStepOnceStopped ==
    [][(TickRuns /\ ~isSimulating)
        => /\ Len(agents') = Len(agents)
           /\ \A i \in 1..Len(agents) :
                 /\ agents'[i].position = agents[i].position
                 /\ PathOf(agents'[i]) = PathOf(agents[i])
                 /\ agents'[i].pathHistory = agents[i].pathHistory]_vars

\* C26: in the graph built for a level, every key and every neighbour in
\* edges is the index of a node of the graph, no node is its own neighbour,
\* and every edge joins a door node and an area-center node.
C26_EdgesWellFormed ==
    built
    => \A u \in DOMAIN graph.edges :
          /\ HasNode(graph, u)
          /\ \A v \in Neighbors(graph, u) :
                /\ HasNode(graph, v)
                /\ v # u
                /\ graph.nodes[u + 1].isDoor # graph.nodes[v + 1].isDoor

\* C27: under repeated ticks of 0.05 s, every agent that is not evacuated
\* and has a path that is not empty and a profile of the catalog (all of
\* positive speed) is evacuated in the end; no tick makes its path longer,
\* and a path of n waypoints comes to have fewer than n.
C27_EvacuatingAgentProgresses ==
    /\ [][Len(PathOf(agent')) <= Len(PathOf(agent))]_vars
    /\ Moves(agent0) ~> agent.evacuated
    /\ \A n \in 1..MaxWaypoints :
          (Moves(agent) /\ Len(agent.path) = n) ~> (Len(PathOf(agent)) < n)

\* C27 witness: ticks of 0.05 s walked an agent along a path of two
\* waypoints or more, none of which it could reach in one tick, to the last.
C27_Witness ==
    /\ Moves(agent0)
    /\ Len(agent0.path) >= 2
    /\ ProperLegs(agent0)
    /\ \A k \in 1..(Len(agent0.path) - 1) :
          distance3D(agent0.path[k], agent0.path[k + 1]) > 2 * DistanceToMove(SpeedOf(agent0), TickTime)
    /\ agent.evacuated
    /\ agent.path = <<>>
    /\ agent.position = agent0.path[Len(agent0.path)]
    /\ Len(agent.pathHistory) = Len(agent0.path) + 1

\* C28: no update is lost around handleStartEvacuation: its write of the
\* agent set keeps what was done to the agents between its call and the
\* write: it drops no agent that was added, restores no agent that was
\* cleared, and resets no position or history a tick had advanced.
C28_NoLostUpdate ==
    [][BatchRuns
        => /\ Len(agents') = Len(agents)
           /\ \A i \in 1..Len(agents) :
                 /\ agents'[i].id = agents[i].id
                 /\ agents'[i].position = agents[i].position
                 /\ agents'[i].pathHistory = agents[i].pathHistory]_vars

\* The state of one agent is consistent: evacuated goes with isEvacuating,
\* an empty path and the position of the target; an agent that is not
\* evacuating has no path and is not evacuated.
ConsistentAgent(a) ==
    /\ a.evacuated
        => /\ a.isEvacuating
           /\ PathOf(a) = <<>>
           /\ "targetPosition" \in DOMAIN a
           /\ a.position = a.targetPosition
    /\ ~a.isEvacuating
        => /\ "path" \notin DOMAIN a
           /\ ~a.evacuated

Stuck(a) == ~a.evacuated /\ PathOf(a) = <<>>

\* C30: stepping goes off only by the pause button, by clearing the agents,
\* or by a tick that finds every agent evacuated. handleStartEvacuation
\* turns it on, its resumed part leaves it on even when no agent obtained a
\* path, and a tick that finds an agent that cannot move (no path) leaves
\* that agent unevacuated and stepping as it was.
C30_StepsUntilAllEvacuated ==
    /\ [][(isSimulating /\ ~isSimulating')
            => \/ TickRuns /\ AllEvacuated(agents)
               \* the pause button
               \/ agents' = agents /\ pending' = pending
               \* handleClearAgents
               \/ Len(agents) > 0 /\ agents' = <<>> /\ pending' = pending]_vars
    \* one more evacuation callback waits: handleStartEvacuation was called
    /\ [][(Len(pending') = Len(pending) + 1 /\ pending'[Len(pending')].kind = "evacuation")
            => isSimulating']_vars
    /\ [][BatchRuns => isSimulating' = isSimulating]_vars
    /\ [][(TickRuns /\ \E i \in 1..Len(agents) : Stuck(agents[i]))
            => /\ isSimulating' = isSimulating
               /\ \E i \in 1..Len(agents') : Stuck(agents'[i])]_vars

\* C30 witness: in the room without an exit the evacuation was started, its
\* batch gave the agent no path, several ticks have run, and stepping is
\* still on.
C30_Witness ==
    /\ workspaceBuilding = OneRoomNoExit
    /\ Len(agents) > 0
    /\ \A i \in 1..Len(agents) : Stuck(agents[i]) /\ ~agents[i].isEvacuating
    /\ started = 1
    /\ fired > 2
    /\ pending = <<>>
    /\ isSimulating

====
